---- MODULE Spec2Model ----
(***************************************************************************)
(* WordWebs API: the game-session progress protocol.                       *)
(*                                                                         *)
(* The state is the content of the DynamoDB tables the API handler writes  *)
(* (players, game_sessions, discord_channels), the chat messages that are  *)
(* live in the Discord channel, the calendar date the handler reads from   *)
(* the clock, and the HTTP response of the last request.  One action is    *)
(* one invocation of a Lambda handler, run to completion.                  *)
(***************************************************************************)
EXTENDS Integers, Sequences, FiniteSets, TLC

VARIABLES
    today,      \* current_date: the date the handler computes from the clock
    players,    \* table wordwebs-players: discord_id -> item, for the ids with an item
    sessions,   \* table wordwebs-game-sessions: sequence of items, session_id = index
    channels,   \* table wordwebs-discord-channels: registered channel ids
    chat,       \* the chat channel: ids of the messages posted and not deleted
    posted,     \* number of chat messages posted so far (message ids are 1..posted)
    response,   \* the HTTP response of the last handled request
    daily_puzzles,      \* table wordwebs-daily-puzzles: puzzle_date -> puzzle
    historical_puzzles, \* table wordwebs-historical-puzzles: group_hash -> item
    gen_date,   \* the date of the daily generator run in progress, None without one
    gen_attempts,   \* generate-and-check attempts made in the present or last run
    candidate,  \* the argument of the validator, of the duplicate check (a puzzle)
                \* or of get_all_daily_games (a date)
    verdict,    \* what that function returned for it
    inflight    \* the save-progress requests that are being handled concurrently

\* the state the save-progress handler run to completion does not touch
others == <<daily_puzzles, historical_puzzles, gen_date, gen_attempts, candidate, verdict, inflight>>

vars == <<today, players, sessions, channels, chat, posted, response, others>>

----------------------------------------------------------------------------
(* Bounds of the model *)

\* number of calendar dates the clock runs through
MaxDays == 3
\* most sessions in the table a ranking is computed from
MaxGames == 4
\* longest guess log a session is driven to (each accepted request appends one)
MaxGuesses == 2
\* largest completion_time (seconds) a request carries
MaxTime == 2

\* the most messages the send-bot-message route posts in a run
MaxPosts == 2

\* the most requests of one player in flight or answered in a run of
\* concurrent requests
MaxRequests == 3

\* the most session records, and the most finished games of a player, a run
\* with failing lookups is driven to
MaxSessions == 3

(* Program constants *)

\* attempts a fresh game starts with
MaxAttempts == 4
\* groups of a puzzle
NumGroups == 4
\* words of a group
GroupSize == 4
\* words of a puzzle
NumWords == 16
\* calls of the generative API one generate_puzzle makes at most
MaxRetries == 3
\* generate-and-check attempts one run of the daily generator makes at most
MaxGenAttempts == 5

----------------------------------------------------------------------------
(* Values *)

\* Python's None / an absent key is the empty set, a present value v is {v}
None == {}
Some(v) == {v}
IsNone(o) == o = {}
Val(o) == CHOOSE v \in o : TRUE

Players == {"p1", "p2"}
GuessVals == {"g1", "g2"}
Channel == "c1"

\* the solved_groups lists requests carry (a group is named by its difficulty)
SolvedVals == {{}, {1}, {2}, {1, 2, 3}, 1..NumGroups}

----------------------------------------------------------------------------
(* Text: a str is a sequence of characters *)

UpperChars == {"A", "B", "C", "D"}
LowerChars == {"a", "b", "c", "d"}
Space == " "
Tab == "\t"
Hyphen == "-"
Whitespace == {Space, Tab}

\* ord(c), the order sorted() compares characters by
Ord ==
    (Tab :> 9) @@ (Space :> 32) @@ (Hyphen :> 45)
    @@ ("A" :> 65) @@ ("B" :> 66) @@ ("C" :> 67) @@ ("D" :> 68)
    @@ ("a" :> 97) @@ ("b" :> 98) @@ ("c" :> 99) @@ ("d" :> 100)

\* c.upper() for one character
UpperChar(c) ==
    IF c \in LowerChars THEN CHOOSE u \in UpperChars : Ord[u] = Ord[c] - 32 ELSE c

\* str.upper()
upper(w) == [i \in 1..Len(w) |-> UpperChar(w[i])]

\* str.strip(): without the leading and the trailing whitespace
RECURSIVE lstrip(_)
lstrip(w) == IF w # << >> /\ Head(w) \in Whitespace THEN lstrip(Tail(w)) ELSE w

RECURSIVE rstrip(_)
rstrip(w) ==
    IF w # << >> /\ w[Len(w)] \in Whitespace
    THEN rstrip(SubSeq(w, 1, Len(w) - 1)) ELSE w

strip(w) == rstrip(lstrip(w))

\* c in w
Contains(w, c) == \E i \in 1..Len(w) : w[i] = c

\* a < b for two str: by the first character that differs, a proper prefix first
RECURSIVE StrLess(_, _)
StrLess(a, b) ==
    IF b = << >> THEN FALSE
    ELSE IF a = << >> THEN TRUE
    ELSE IF Head(a) # Head(b) THEN Ord[Head(a)] < Ord[Head(b)]
    ELSE StrLess(Tail(a), Tail(b))

\* ''.join(words)
RECURSIVE join(_)
join(words) == IF words = << >> THEN << >> ELSE Head(words) \o join(Tail(words))

\* hashlib.md5(...).hexdigest(): a digest, taken as free of collisions
md5(text) == <<"md5", text>>

----------------------------------------------------------------------------
(* PuzzleGenerator: the validator *)

\* the first outcome in the sequence that is not "ok": the loop returns (or the
\* exception leaves it) at the first word or group that does not pass
RECURSIVE FirstNotOk(_)
FirstNotOk(outcomes) ==
    IF outcomes = << >> THEN "ok"
    ELSE IF Head(outcomes) # "ok" THEN Head(outcomes)
    ELSE FirstNotOk(Tail(outcomes))

\* the checks of one word: no space and no hyphen in the stripped word, and no
\* capital followed by a lower-case letter; word_clean[0] raises IndexError on
\* an empty stripped word
check_word(word) ==
    LET word_clean == strip(word)
    IN  IF Contains(word_clean, Space) \/ Contains(word_clean, Hyphen) THEN "false"
        ELSE IF word_clean = << >> THEN "raise"
        ELSE IF /\ word_clean[1] \in UpperChars
                /\ \E i \in 2..Len(word_clean) : word_clean[i] \in LowerChars
        THEN "false"
        ELSE "ok"

\* the body of the loop over the groups, for one group
check_group(group) ==
    IF Len(group.words) # GroupSize THEN "false"
    ELSE FirstNotOk([k \in 1..Len(group.words) |-> check_word(group.words[k])])

\* all_words: the words of all groups, upper-cased and stripped; the set of
\* them, every group having passed the loop with GroupSize words
all_words(groups) ==
    {upper(strip(groups[g].words[k])) :
        g \in 1..Len(groups), k \in 1..GroupSize}

\* the difficulty check comparing the list as it comes, unsorted
difficulties_ok_unsorted(difficulties) ==
    difficulties = [i \in 1..NumGroups |-> i]

\* sorted(difficulties) == [1, 2, 3, 4]
difficulties_ok(difficulties) ==
    SortSeq(difficulties, LAMBDA a, b : a < b) = [i \in 1..NumGroups |-> i]

\* the duplicate-word check on the words as they come, not upper-cased
no_duplicate_words_cased(groups) ==
    Cardinality({strip(groups[g].words[k]) :
                    g \in 1..Len(groups), k \in 1..GroupSize}) = NumWords

\* len(set(all_words)) == 16
no_duplicate_words(groups) ==
    Cardinality(all_words(groups)) = NumWords

\* len(set(categories)) == 4, the categories stripped
no_duplicate_categories(groups) ==
    Cardinality({strip(groups[g].category) : g \in 1..Len(groups)}) = NumGroups

\* a validator that checks the number of groups and of words only
validate_puzzle_shape_only(groups) ==
    IF Len(groups) # NumGroups THEN "false"
    ELSE IF \E g \in 1..Len(groups) : Len(groups[g].words) # GroupSize THEN "false"
    ELSE "true"

\* _validate_puzzle: "true", "false", or "raise" when an exception leaves it
validate_puzzle(groups) ==
    LET looped == FirstNotOk([g \in 1..Len(groups) |-> check_group(groups[g])])
    IN  IF Len(groups) # NumGroups THEN "false"
        ELSE IF looped # "ok" THEN looped
        ELSE IF Len(groups) * GroupSize # NumWords THEN "false"
        ELSE IF ~no_duplicate_words(groups) THEN "false"
        ELSE IF ~difficulties_ok([g \in 1..Len(groups) |-> groups[g].difficulty])
        THEN "false"
        ELSE IF ~no_duplicate_categories(groups) THEN "false"
        ELSE "true"

\* the words of the groups in the order of the groups, each as format stores it
RECURSIVE group_words(_)
group_words(groups) ==
    IF groups = << >> THEN << >>
    ELSE [k \in 1..Len(Head(groups).words) |-> upper(strip(Head(groups).words[k]))]
            \o group_words(Tail(groups))

\* random.shuffle(all_words): one of the orders the shuffle can leave
shuffle(words, order) ==
    IF order = "reversed" THEN [k \in 1..Len(words) |-> words[Len(words) + 1 - k]]
    ELSE IF order = "rotated" THEN Tail(words) \o <<Head(words)>>
    ELSE words

\* _format_puzzle: words upper-cased and stripped, categories stripped, and all
\* words shuffled
format_puzzle(groups, order) ==
    [words |-> shuffle(group_words(groups), order),
     groups |-> [g \in 1..Len(groups) |->
                    [words |-> [k \in 1..Len(groups[g].words) |->
                                   upper(strip(groups[g].words[k]))],
                     category |-> strip(groups[g].category),
                     difficulty |-> groups[g].difficulty]]]

\* generate_puzzle: up to MaxRetries calls of the generative API, each of which
\* raises (None) or returns a candidate; the first candidate that validates is
\* returned formatted, and without one the call raises (None)
generate_puzzle(run) ==
    LET passes(k) == ~IsNone(run.api[k]) /\ validate_puzzle(Val(run.api[k])) = "true"
        hits == {k \in 1..MaxRetries : passes(k)}
    IN  IF hits = {} THEN None
        ELSE Some(format_puzzle(Val(run.api[CHOOSE k \in hits : \A j \in hits : k <= j]),
                                run.order))

\* The candidate puzzles: a well-formed puzzle of 16 two-letter words, changed
\* in its difficulties, in one category, in one word and in its shape.
Letters == <<"A", "B", "C", "D">>

BaseGroup(i) ==
    [words |-> [k \in 1..GroupSize |-> <<Letters[i], Letters[k]>>],
     category |-> <<Letters[i]>>, difficulty |-> i]

\* the difficulties of the 4 groups, in the order of the groups
DifficultyVals ==
    {<<1, 2, 3, 4>>, <<4, 3, 2, 1>>, <<2, 1, 4, 3>>, <<1, 2, 3, 3>>,
     <<1, 2, 3, 5>>, <<0, 1, 2, 3>>, <<1, 1, 1, 1>>}

\* the category of the second group: its own, the one of the first group, that
\* one with a trailing space, that one in lower case
CategoryVals == {<<"B">>, <<"A">>, <<"A", Space>>, <<"a">>}

\* the word put in place of a word of the puzzle
WordVals ==
    {<<"A", "A">>, <<"A", "B">>, <<"a", "b">>, <<"A", "B", Space>>,
     <<"A", Space, "B">>, <<"A", Tab, "B">>, <<"A", Hyphen, "B">>,
     <<"A", "b", "c">>, <<"a", "b", "c">>, <<"A", "B", "C">>,
     << >>, <<Space>>}

\* the places a word is put: the first word and the last word of the puzzle
WordPlaces == {<<1, 1>>, <<NumGroups, GroupSize>>}

ShapeVals == {"same", "drop_group", "extra_group", "drop_word", "extra_word"}

\* a fifth group, of words no other group has
ExtraGroup ==
    [words |-> [k \in 1..GroupSize |-> <<"D", Letters[k], "A">>],
     category |-> <<"D", "D">>, difficulty |-> 1]

CandidateOf(ds, cat, place, word, shape) ==
    LET g0 == [i \in 1..NumGroups |-> [BaseGroup(i) EXCEPT !.difficulty = ds[i]]]
        g1 == [g0 EXCEPT ![2].category = cat]
        g2 == [g1 EXCEPT ![place[1]].words[place[2]] = word]
    IN  CASE shape = "same" -> g2
          [] shape = "drop_group" -> SubSeq(g2, 1, NumGroups - 1)
          [] shape = "extra_group" -> Append(g2, ExtraGroup)
          [] shape = "drop_word" ->
                [g2 EXCEPT ![3].words = SubSeq(@, 1, GroupSize - 1)]
          [] shape = "extra_word" ->
                [g2 EXCEPT ![3].words = Append(@, <<"A", "B", "C", "D">>)]

\* a well-formed puzzle whose words all start with the characters of tag
PuzzleOf(tag) ==
    [i \in 1..NumGroups |->
        [BaseGroup(i) EXCEPT
            !.words = [k \in 1..GroupSize |-> tag \o <<Letters[i], Letters[k]>>]]]

\* c.lower() for one character
LowerChar(c) ==
    IF c \in UpperChars THEN CHOOSE l \in LowerChars : Ord[l] = Ord[c] + 32 ELSE c

\* the group with its words in reverse order and in lower case
Shuffled(group) ==
    [group EXCEPT
        !.words = [k \in 1..Len(@) |->
                      [i \in 1..Len(@[Len(@) + 1 - k]) |->
                          LowerChar(@[Len(@) + 1 - k][i])]]]

\* a well-formed puzzle whose first group has other words than the first group
\* of PuzzleOf(<< >>), with the same characters in the same order once the words
\* are sorted and written one after the other: A, AAB, AC, AD for AA, AB, AC, AD
RegroupedPuzzle ==
    [PuzzleOf(<<"C", "C">>) EXCEPT
        ![1].words = <<<<"A">>, <<"A", "A", "B">>, <<"A", "C">>, <<"A", "D">>>>]

\* the puzzles saved to and looked up in the archive: three puzzles without a
\* common word, puzzles with a group of another one in another order and
\* letter case, and a puzzle with a group of other words of the same characters
ArchivePuzzles ==
    {PuzzleOf(<< >>), PuzzleOf(<<"A">>), PuzzleOf(<<"B">>),
     [PuzzleOf(<<"C">>) EXCEPT ![2] = Shuffled(PuzzleOf(<< >>)[3])],
     [PuzzleOf(<<"D">>) EXCEPT ![4] = Shuffled(PuzzleOf(<<"A">>)[1])],
     [i \in 1..NumGroups |-> Shuffled(PuzzleOf(<<"B">>)[i])],
     RegroupedPuzzle}

\* what the calls of the generative API return to the daily generator: three
\* puzzles that validate (the first with a word in lower case, the third with a
\* group of the second in another order and letter case) and two that do not
\* (a word with a hyphen; a repeated difficulty and a word repeated in lower
\* case)
GoodPuzzle1 == CandidateOf(<<4, 3, 2, 1>>, <<"B">>, <<1, 1>>, <<"a", "b", "c">>, "same")
GoodPuzzle2 == PuzzleOf(<<"A">>)
GoodPuzzle3 == [PuzzleOf(<<"B">>) EXCEPT ![2] = Shuffled(PuzzleOf(<<"A">>)[1])]
BadPuzzle == CandidateOf(<<1, 2, 3, 4>>, <<"B">>, <<1, 1>>, <<"A", Hyphen, "B">>, "same")
BadPuzzle2 == CandidateOf(<<1, 2, 3, 3>>, <<"B">>, <<1, 1>>, <<"a", "b">>, "same")

\* what one call of generate_puzzle meets: the outcomes of its calls of the
\* generative API (None: the call raises) and the order the shuffle leaves
GenRuns ==
    {[api |-> <<Some(GoodPuzzle1), None, None>>, order |-> "same"],
     [api |-> <<Some(BadPuzzle), Some(GoodPuzzle2), None>>, order |-> "reversed"],
     [api |-> <<None, None, Some(GoodPuzzle3)>>, order |-> "rotated"],
     [api |-> <<Some(BadPuzzle2), None, Some(BadPuzzle)>>, order |-> "same"]}

Candidates ==
    {CandidateOf(ds, cat, place, word, shape) :
        ds \in DifficultyVals, cat \in CategoryVals, place \in WordPlaces,
        word \in WordVals, shape \in ShapeVals}

----------------------------------------------------------------------------
(* DynamoDBClient: the historical archive *)

\* _hash_group without the sort of the words
hash_group_unsorted(words) ==
    md5(join([i \in 1..Len(words) |-> upper(words[i])]))

\* _hash_group: the digest of the upper-cased words, sorted and joined
hash_group(words) ==
    md5(join(SortSeq([i \in 1..Len(words) |-> upper(words[i])], StrLess)))

\* check_duplicate_groups: some group's key has an item in the archive
check_duplicate_groups(H, groups) ==
    \E g \in 1..Len(groups) : hash_group(groups[g].words) \in DOMAIN H

\* the archive after put_item of one group (an item under its key is replaced)
put_historical_group(H, group) ==
    LET key == hash_group(group.words)
    IN  [k \in DOMAIN H \cup {key} |-> IF k = key THEN group ELSE H[k]]

\* save_historical_puzzle: put_item of every group, in the order of the groups
RECURSIVE save_historical_puzzle(_, _)
save_historical_puzzle(H, groups) ==
    IF groups = << >> THEN H
    ELSE save_historical_puzzle(put_historical_group(H, Head(groups)), Tail(groups))

----------------------------------------------------------------------------
(* daily_puzzle_generator *)

\* the result of a run: status code and what it reports
GenResponse(code, error) ==
    [code |-> code, error |-> error, sent |-> FALSE, who |-> "nobody"]

\* a lookup in the Puzzle Store that finds no item
db_get_daily_puzzle_missing(D, d) ==
    None

\* DynamoDBClient.get_daily_puzzle: the item of the date, None without one
db_get_daily_puzzle(D, d) ==
    IF d \in DOMAIN D THEN Some(D[d]) ELSE None

\* save_daily_puzzle: put_item of the puzzle under its date
save_daily_puzzle(D, d, puzzle) ==
    [x \in DOMAIN D \cup {d} |-> IF x = d THEN puzzle ELSE D[x]]

\* the loop of the daily generator failing the run when its last pass meets a
\* puzzle with a group in the archive
generator_attempt_strict(D, H, d, k, run) ==
    LET puzzle_data == generate_puzzle(run)
    IN  IF IsNone(puzzle_data)
        THEN [done |-> k = MaxGenAttempts, daily_puzzles |-> D,
              historical_puzzles |-> H, response |-> GenResponse(500, "failed")]
        ELSE IF ~check_duplicate_groups(H, Val(puzzle_data).groups)
        THEN [done |-> TRUE,
              daily_puzzles |-> save_daily_puzzle(D, d, Val(puzzle_data)),
              historical_puzzles |-> save_historical_puzzle(H, Val(puzzle_data).groups),
              response |-> GenResponse(200, "none")]
        ELSE [done |-> k = MaxGenAttempts, daily_puzzles |-> D,
              historical_puzzles |-> H, response |-> GenResponse(500, "failed")]

\* lambda_handler of the daily generator for date d, the k-th pass of its loop:
\* generate_puzzle, which meets run, and the check against the archive.  A
\* puzzle without a group in the archive ends the loop; one with such a group
\* and an exception are passed over, but in the last pass, where the puzzle is
\* kept and the exception ends the run.  After the loop the puzzle is saved to
\* the Puzzle Store and to the archive.
generator_attempt(D, H, d, k, run) ==
    LET puzzle_data == generate_puzzle(run)
    IN  IF IsNone(puzzle_data)
        THEN [done |-> k = MaxGenAttempts, daily_puzzles |-> D,
              historical_puzzles |-> H, response |-> GenResponse(500, "failed")]
        ELSE IF ~check_duplicate_groups(H, Val(puzzle_data).groups)
                \/ k = MaxGenAttempts
        THEN [done |-> TRUE,
              daily_puzzles |-> save_daily_puzzle(D, d, Val(puzzle_data)),
              historical_puzzles |-> save_historical_puzzle(H, Val(puzzle_data).groups),
              response |-> GenResponse(200, "none")]
        ELSE [done |-> FALSE, daily_puzzles |-> D, historical_puzzles |-> H,
              response |-> GenResponse(500, "failed")]

----------------------------------------------------------------------------
(* DynamoDBClient: the store operations, as functions of the table content *)

\* ids of the items of table S under (discord_id, puzzle_date) of the index
SessionIds(S, p, d) ==
    {i \in 1..Len(S) : S[i].discord_id = p /\ S[i].puzzle_date = d}

\* get_user_game_session: the first item of the index query, None without one
get_user_game_session(S, p, d) ==
    LET ids == SessionIds(S, p, d)
    IN  IF ids = {} THEN None
        ELSE Some(CHOOSE i \in ids : \A j \in ids : i <= j)

\* get_user_game_session with the outcome of its query: the except clause
\* answers None when the query fails
get_user_game_session_caught(S, p, d, outcome) ==
    IF outcome = "ok" THEN get_user_game_session(S, p, d) ELSE None

\* a < b for two tuples of numbers: by the first component that differs
RECURSIVE TupleLess(_, _)
TupleLess(a, b) ==
    IF a = << >> \/ b = << >> THEN a = << >> /\ b # << >>
    ELSE IF Head(a) # Head(b) THEN Head(a) < Head(b)
    ELSE TupleLess(Tail(a), Tail(b))

\* list.sort(key=...) on a list of [key, item]: ascending by key, items of equal
\* key in the order they had (the sort is stable)
RECURSIVE insort(_, _)
insort(s, x) ==
    IF s = << >> THEN <<x>>
    ELSE IF TupleLess(x.key, Head(s).key) THEN <<x>> \o s
    ELSE <<Head(s)>> \o insort(Tail(s), x)

RECURSIVE sort(_)
sort(s) ==
    IF s = << >> THEN << >>
    ELSE insort(sort(SubSeq(s, 1, Len(s) - 1)), s[Len(s)])

\* the key of the completed games: x.get('completion_time', 0)
completed_key(x) ==
    <<IF IsNone(x.completion_time) THEN 0 ELSE Val(x.completion_time)>>

\* the key of the incomplete games with the solved groups counted upwards
incomplete_key_ascending(x) == <<x.solved_groups_count, x.attempts_used>>

\* the key of the incomplete games: (-solved_groups_count, attempts_used)
incomplete_key(x) == <<-x.solved_groups_count, x.attempts_used>>

\* the game_data get_all_daily_games builds of an item; completion_time only
\* when the item has a true one
game_data(item) ==
    [discord_id |-> item.discord_id, completed |-> item.completed,
     solved_groups_count |-> Cardinality(item.solved_groups),
     attempts_used |-> MaxAttempts - item.attempts_remaining,
     game_status |-> item.game_status,
     completion_time |->
         IF ~IsNone(item.completion_time) /\ Val(item.completion_time) # 0
         THEN item.completion_time ELSE None]

\* get_all_daily_games without a channel: the games of the date, the completed
\* ones by completion time, then the others by solved groups and attempts used,
\* with their ranks
get_all_daily_games(S, d) ==
    LET items == SelectSeq(S, LAMBDA item : item.puzzle_date = d)
        all == [i \in 1..Len(items) |-> game_data(items[i])]
        completed == SelectSeq(all, LAMBDA g : g.completed)
        incomplete == SelectSeq(all, LAMBDA g : ~g.completed)
        completed_sorted ==
            sort([i \in 1..Len(completed) |->
                    [key |-> completed_key(completed[i]), item |-> completed[i]]])
        incomplete_sorted ==
            sort([i \in 1..Len(incomplete) |->
                    [key |-> incomplete_key(incomplete[i]), item |-> incomplete[i]]])
        completed_games == [i \in 1..Len(completed_sorted) |-> completed_sorted[i].item]
        incomplete_games ==
            [i \in 1..Len(incomplete_sorted) |-> incomplete_sorted[i].item]
        games == completed_games \o incomplete_games
    IN  [rank \in 1..Len(games) |-> [rank |-> rank] @@ games[rank]]

\* has_user_completed_daily_puzzle without the read of the completed attribute
has_user_completed_daily_puzzle_unread(S, p, d) == FALSE

\* has_user_completed_daily_puzzle: session and session.get('completed', False)
has_user_completed_daily_puzzle(S, p, d) ==
    LET s == get_user_game_session(S, p, d)
    IN  IF IsNone(s) THEN FALSE ELSE S[Val(s)].completed

\* get_or_create_player: a new player starts with no games and no best time
get_or_create_player(P, p) ==
    IF p \in DOMAIN P THEN P
    ELSE [q \in DOMAIN P \cup {p} |->
            IF q = p
            THEN [total_games |-> 0, games_won |-> 0, best_time |-> None]
            ELSE P[q]]

\* the :status value of the update expression of save_game_progress
GameStatus(attempts, solved) ==
    IF attempts > 0 /\ Cardinality(solved) < NumGroups THEN "in_progress"
    ELSE IF Cardinality(solved) = NumGroups THEN "completed" ELSE "failed"

\* the item save_game_progress puts for a session that does not exist yet
NewSession(p, d, guesses, attempts, solved) ==
    [discord_id |-> p, puzzle_date |-> d, guesses |-> guesses,
     attempts_remaining |-> attempts, solved_groups |-> solved,
     game_status |-> "in_progress", completed |-> FALSE,
     completion_time |-> None, discord_message_id |-> None]

\* save_game_progress that puts a new item whether or not a session exists
db_save_game_progress_put(S, p, d, guesses, attempts, solved) ==
    [sessions |-> Append(S, NewSession(p, d, guesses, attempts, solved)),
     session_id |-> Len(S) + 1]

\* DynamoDBClient.save_game_progress: update the session found, else create one;
\* the result is the table and the session id
db_save_game_progress(S, p, d, guesses, attempts, solved) ==
    LET existing == get_user_game_session(S, p, d)
    IN  IF ~IsNone(existing)
        THEN [sessions |->
                [S EXCEPT ![Val(existing)] =
                    [@ EXCEPT !.guesses = guesses,
                              !.attempts_remaining = attempts,
                              !.solved_groups = solved,
                              !.game_status = GameStatus(attempts, solved)]],
              session_id |-> Val(existing)]
        ELSE [sessions |-> Append(S, NewSession(p, d, guesses, attempts, solved)),
              session_id |-> Len(S) + 1]

\* complete_game_session: game_status, completed and (when given) completion_time
complete_game_session(S, sid, completed, completion_time) ==
    [S EXCEPT ![sid] =
        [@ EXCEPT !.game_status = IF completed THEN "completed" ELSE "failed",
                  !.completed = completed,
                  !.completion_time =
                      IF IsNone(completion_time) THEN @ ELSE completion_time]]

\* _update_player_stats that stores every completion_time as best_time
update_player_stats_overwrite(P, p, completion_time) ==
    [P EXCEPT ![p] =
        [@ EXCEPT !.total_games = @ + 1,
                  !.games_won = @ + 1,
                  !.best_time = Some(completion_time)]]

\* _update_player_stats: ADD total_games 1, games_won 1; best_time when better
update_player_stats(P, p, completion_time) ==
    LET current_best == P[p].best_time
    IN  [P EXCEPT ![p] =
            [@ EXCEPT !.total_games = @ + 1,
                      !.games_won = @ + 1,
                      !.best_time =
                          IF IsNone(current_best) \/ completion_time < Val(current_best)
                          THEN Some(completion_time) ELSE @]]

\* the failed branch adding to games_won as the completed branch does
increment_total_games_won(P, p) ==
    [P EXCEPT ![p] = [@ EXCEPT !.total_games = @ + 1, !.games_won = @ + 1]]

\* the failed branch of the handler: ADD total_games 1
increment_total_games(P, p) ==
    [P EXCEPT ![p] = [@ EXCEPT !.total_games = @ + 1]]

\* update_discord_message_info: the session's back-reference to its chat message
update_discord_message_info(S, sid, mid) ==
    [S EXCEPT ![sid] = [@ EXCEPT !.discord_message_id = Some(mid)]]

\* register_discord_channel: put the channel item; False when the write fails
register_discord_channel(C, ch, reg) ==
    IF reg = "ok" THEN C \cup {ch} ELSE C

----------------------------------------------------------------------------
(* Requests and the outcomes of the external calls *)

\* completion_time values: absent, 0 and the positive times
TimeVals == {None} \cup {Some(t) : t \in 0..MaxTime}

\* a save-progress request body with its credential.  channel is "none" (no
\* channel_id), "plain" (channel_id and guild_id, no image_data) or "image"
\* (channel_id, guild_id and image_data)
BodyOf(g, a, sv, ct, ch) ==
    [auth |-> TRUE, fields |-> TRUE, guess |-> g, attempts_remaining |-> a,
     solved_groups |-> sv, completion_time |-> ct, channel |-> ch]

\* a request without a valid bearer credential, and one lacking a required field
BadRequests ==
    {[BodyOf("g1", MaxAttempts, {}, None, "none") EXCEPT !.auth = FALSE],
     [BodyOf("g1", MaxAttempts, {}, None, "none") EXCEPT !.fields = FALSE]}

\* the requests of the session protocol: every guess, attempts_remaining and
\* solved_groups value; completion_time is read only with 4 solved groups, so
\* the other requests carry none
CoreRequests ==
    {BodyOf(g, a, sv, None, "none") :
        g \in GuessVals, a \in 0..MaxAttempts, sv \in SolvedVals \ {1..NumGroups}}
    \cup {BodyOf(g, a, 1..NumGroups, ct, "none") :
        g \in GuessVals, a \in 0..MaxAttempts, ct \in TimeVals}
    \cup BadRequests

\* the request of a second player: a game won with the first request
OtherRequests ==
    {BodyOf("g2", 1, 1..NumGroups, Some(1), "none")}

\* the requests of the runs over several days: a guess that leaves the game in
\* progress, and a 4th group with every completion_time
DayRequests ==
    {BodyOf("g1", MaxAttempts, {1}, None, "none")}
    \cup {BodyOf("g1", MaxAttempts, 1..NumGroups, ct, "none") : ct \in TimeVals}

\* the requests with a channel: sent from a Discord channel with the image of
\* the game state (guess g1) or without it (guess g2)
MsgRequests ==
    {BodyOf(IF ch = "image" THEN "g1" ELSE "g2", a, sv, ct, ch) :
        a \in {0, 3, MaxAttempts}, sv \in {{}, {1}, 1..NumGroups},
        ct \in {None, Some(1)}, ch \in {"plain", "image"}}

\* the outcomes of the external calls of one request: posting (send) and
\* deleting (del) a chat message, the channel registration (reg), the store
\* writes of the session (save), of the completion marker (mark) and of the
\* player's stats (stats), and the three lookups of the session: the one of the
\* replay guard (guard), the one of the handler (read) and the one inside
\* DynamoDBClient.save_game_progress (query)
QuietEnv ==
    [send |-> "ok", del |-> "ok", reg |-> "ok",
     save |-> "ok", mark |-> "ok", stats |-> "ok",
     guard |-> "ok", read |-> "ok", query |-> "ok"]

\* outcomes of the calls to the chat platform and of the channel registration,
\* the store writes succeeding
Envs ==
    {[QuietEnv EXCEPT !.send = s, !.del = d, !.reg = g] :
        s \in {"ok", "fail", "raise"}, d \in {"ok", "fail"}, g \in {"ok", "fail"}}

\* the states of a session a ranking is computed from: completed with a
\* completion time, in progress, failed, and in progress on another date
RankItemVals ==
    {[NewSession("", 1, <<"g1">>, 2, 1..NumGroups) EXCEPT
          !.game_status = "completed", !.completed = TRUE,
          !.completion_time = Some(t)] : t \in 1..2}
    \cup {NewSession("", 1, <<"g1">>, MaxAttempts - 1, {1}),
          NewSession("", 1, <<"g1">>, MaxAttempts - 2, {1}),
          NewSession("", 1, <<"g1">>, 1, {1, 2, 3}),
          [NewSession("", 1, <<"g1">>, 0, {1}) EXCEPT !.game_status = "failed"],
          NewSession("", 2, <<"g1">>, MaxAttempts, {})}

\* the tables a ranking is computed from: up to MaxGames sessions, each of a
\* player of its own, in the order the scan returns them
RankTables(n) ==
    {[i \in 1..n |-> [items[i] EXCEPT !.discord_id = ToString(i)]] :
        items \in [1..n -> RankItemVals]}

\* outcomes of the store writes, the chat platform not being called
FaultEnvs ==
    {[QuietEnv EXCEPT !.save = s, !.mark = m, !.stats = t] :
        s \in {"ok", "fail"}, m \in {"ok", "fail"}, t \in {"ok", "fail"}}

\* the requests of the runs with store faults: a guess that leaves the game in
\* progress, a lost game and a won game
FaultRequests ==
    {BodyOf(g, MaxAttempts - 1, {1}, None, "none") : g \in GuessVals}
    \cup {BodyOf(g, 0, {1}, None, "none") : g \in GuessVals}
    \cup {BodyOf(g, 1, 1..NumGroups, Some(t), "none") :
             g \in GuessVals, t \in 1..MaxTime}

----------------------------------------------------------------------------
(* The api_handler *)

\* the response: status code, error kind, discord_message_sent, and the user the
\* credential names
Response(code, error, sent, who) ==
    [code |-> code, error |-> error, sent |-> sent, who |-> who]

\* the condition under which the handler reports the game state to the channel
should_send_discord_message(existing, r) ==
    LET existing_solved_count ==
            IF IsNone(existing) THEN 0 ELSE Cardinality(Val(existing).solved_groups)
        new_solved_count == Cardinality(r.solved_groups)
        existing_attempts ==
            IF IsNone(existing) THEN MaxAttempts ELSE Val(existing).attempts_remaining
    IN  \/ new_solved_count = NumGroups
        \/ r.attempts_remaining = 0
        \/ new_solved_count > existing_solved_count
        \/ /\ new_solved_count = existing_solved_count
           /\ r.attempts_remaining < existing_attempts

\* send_discord_message_with_image: the id of the posted message, None on failure
send_discord_message_with_image(n, e) ==
    IF e.send = "ok" THEN Some(n + 1) ELSE None

\* edit_discord_message_with_image: delete the old message (a failed delete is
\* ignored), then post a new one; the result is the channel and the new id
edit_discord_message_with_image(M, n, old, e) ==
    [chat |-> (IF e.del = "ok" THEN M \ {old} ELSE M)
                 \cup send_discord_message_with_image(n, e),
     message_id |-> send_discord_message_with_image(n, e)]

\* handle_discord_messaging: edit the session's message or post a first one, and
\* store the new id on the session; any exception inside ends in "return False"
handle_discord_messaging(S, M, n, sid, e) ==
    LET old == S[sid].discord_message_id
        ed  == IF IsNone(old)
               THEN [chat |-> M \cup send_discord_message_with_image(n, e),
                     message_id |-> send_discord_message_with_image(n, e)]
               ELSE edit_discord_message_with_image(M, n, Val(old), e)
    IN  IF e.send = "raise"
        THEN [sessions |-> S, chat |-> M, posted |-> n, sent |-> FALSE]
        ELSE IF IsNone(ed.message_id)
        THEN [sessions |-> S, chat |-> ed.chat, posted |-> n, sent |-> FALSE]
        ELSE [sessions |-> update_discord_message_info(S, sid, Val(ed.message_id)),
              chat |-> ed.chat, posted |-> n + 1, sent |-> TRUE]

\* the messaging block with an except clause that raises again, as the one of
\* the save block does: a message that was not sent ends the request
discord_messaging_step_reraise(S, M, n, sid, existing, r, e) ==
    IF should_send_discord_message(existing, r) /\ r.channel = "image"
    THEN LET h == handle_discord_messaging(S, M, n, sid, e)
         IN  [sessions |-> h.sessions, chat |-> h.chat, posted |-> h.posted,
              sent |-> h.sent, aborted |-> ~h.sent]
    ELSE [sessions |-> S, chat |-> M, posted |-> n, sent |-> FALSE,
          aborted |-> FALSE]

\* the messaging block of the handler: it runs handle_discord_messaging when the
\* event is significant and the body has channel_id and image_data; an exception
\* is caught and logged, the request goes on (aborted is never set)
discord_messaging_step(S, M, n, sid, existing, r, e) ==
    IF should_send_discord_message(existing, r) /\ r.channel = "image"
    THEN LET h == handle_discord_messaging(S, M, n, sid, e)
         IN  [sessions |-> h.sessions, chat |-> h.chat, posted |-> h.posted,
              sent |-> h.sent, aborted |-> FALSE]
    ELSE [sessions |-> S, chat |-> M, posted |-> n, sent |-> FALSE,
          aborted |-> FALSE]

\* the registration block of the handler: with a channel_id and a guild_id the
\* channel is registered; a failure is logged, the request goes on
channel_registration_step(C, r, e) ==
    IF r.channel # "none"
    THEN [channels |-> register_discord_channel(C, Channel, e.reg), aborted |-> FALSE]
    ELSE [channels |-> C, aborted |-> FALSE]

\* Python truth of body.get('completion_time'): absent and 0 are false
Truthy(completion_time) ==
    ~IsNone(completion_time) /\ Val(completion_time) # 0

\* the last block of the handler: mark the session completed or failed and
\* update the player's stats.  complete_game_session raises when its write fails
\* and the except clause of the block skips the stats; _update_player_stats
\* catches its own failure, the failed write of total_games is caught by the block
finalize_game(P, S, p, sid, r, e) ==
    IF Cardinality(r.solved_groups) = NumGroups
    THEN IF Truthy(r.completion_time) /\ e.mark = "ok"
         THEN [sessions |-> complete_game_session(S, sid, TRUE, r.completion_time),
               players |-> IF e.stats = "ok"
                           THEN update_player_stats(P, p, Val(r.completion_time))
                           ELSE P]
         ELSE [sessions |-> S, players |-> P]
    ELSE IF r.attempts_remaining = 0 /\ e.mark = "ok"
    THEN [sessions |-> complete_game_session(S, sid, FALSE, None),
          players |-> IF e.stats = "ok" THEN increment_total_games(P, p) ELSE P]
    ELSE [sessions |-> S, players |-> P]

\* a guess log that starts again with each request
current_guesses_reset(S, existing, r) ==
    <<r.guess>>

\* the guess log the handler sends to the store: the stored log and the new guess
current_guesses(S, existing, r) ==
    (IF IsNone(existing) THEN <<>> ELSE Val(existing).guesses) \o <<r.guess>>

\* save_game_progress of the api_handler, from the request to the response: the
\* tables, the channel and the response it leaves.  A lookup of the session
\* whose query fails answers None: the replay guard then lets the request pass,
\* the handler starts the log anew, and the store puts a new item
handle_save(st, d, p, r, e) ==
    LET unchanged(resp) ==
            [players |-> st.players, sessions |-> st.sessions,
             channels |-> st.channels, chat |-> st.chat, posted |-> st.posted,
             response |-> resp]
        P1 == get_or_create_player(st.players, p)
        completed ==
            ~IsNone(get_user_game_session_caught(st.sessions, p, d, e.guard))
                /\ has_user_completed_daily_puzzle(st.sessions, p, d)
        sid0 == get_user_game_session_caught(st.sessions, p, d, e.read)
        existing == IF IsNone(sid0) THEN None ELSE Some(st.sessions[Val(sid0)])
        guesses == current_guesses(st.sessions, existing, r)
        saved == IF e.query = "ok"
                 THEN db_save_game_progress(st.sessions, p, d, guesses,
                          r.attempts_remaining, r.solved_groups)
                 ELSE [sessions |->
                          Append(st.sessions,
                                 NewSession(p, d, guesses, r.attempts_remaining,
                                            r.solved_groups)),
                       session_id |-> Len(st.sessions) + 1]
        msg == discord_messaging_step(saved.sessions, st.chat, st.posted,
                                      saved.session_id, existing, r, e)
        reg == channel_registration_step(st.channels, r, e)
        fin == finalize_game(P1, msg.sessions, p, saved.session_id, r, e)
    IN  IF ~r.auth THEN unchanged(Response(401, "auth", FALSE, "nobody"))
        ELSE IF ~r.fields THEN unchanged(Response(400, "missing_field", FALSE, p))
        ELSE IF completed
        THEN [unchanged(Response(400, "already_completed", FALSE, p))
                EXCEPT !.players = P1]
        ELSE IF e.save = "fail"
        THEN [unchanged(Response(500, "failed", FALSE, p)) EXCEPT !.players = P1]
        ELSE IF msg.aborted
        THEN [players |-> P1, sessions |-> msg.sessions, channels |-> st.channels,
              chat |-> msg.chat, posted |-> msg.posted,
              response |-> Response(500, "failed", FALSE, p)]
        ELSE IF reg.aborted
        THEN [players |-> P1, sessions |-> msg.sessions, channels |-> reg.channels,
              chat |-> msg.chat, posted |-> msg.posted,
              response |-> Response(500, "failed", FALSE, p)]
        ELSE [players |-> fin.players, sessions |-> fin.sessions,
              channels |-> reg.channels, chat |-> msg.chat, posted |-> msg.posted,
              response |-> Response(200, "none", msg.sent, p)]

\* the response of a route that changes nothing
Reply(st, resp) ==
    [players |-> st.players, sessions |-> st.sessions, channels |-> st.channels,
     chat |-> st.chat, posted |-> st.posted, response |-> resp]

\* get_daily_puzzle of the api_handler: the puzzle of the date, 404 without one
get_daily_puzzle(st, D, d, p, r) ==
    IF ~r.auth THEN Reply(st, Response(401, "auth", FALSE, "nobody"))
    ELSE IF IsNone(db_get_daily_puzzle(D, d))
    THEN Reply(st, Response(404, "no_puzzle", FALSE, p))
    ELSE Reply(st, Response(200, "none", FALSE, p))

\* get_leaderboard of the api_handler: the completed games of the date
get_leaderboard(st, d, p, r) ==
    IF ~r.auth THEN Reply(st, Response(401, "auth", FALSE, "nobody"))
    ELSE Reply(st, Response(200, "none", FALSE, p))

\* the response of the game-state route: the status it reports for the session
StateResponse(status, who) ==
    [code |-> 200, error |-> "none", sent |-> FALSE, who |-> who,
     game_status |-> status]

\* get_game_state of the api_handler: "new" without a session, "completed" by
\* the completion marker, "failed" by the attempts, the stored status otherwise
get_game_state(st, d, p, r) ==
    LET sid == get_user_game_session(st.sessions, p, d)
        session == st.sessions[Val(sid)]
    IN  IF ~r.auth THEN Reply(st, Response(401, "auth", FALSE, "nobody"))
        ELSE IF IsNone(sid) THEN Reply(st, StateResponse("new", p))
        ELSE IF session.completed THEN Reply(st, StateResponse("completed", p))
        ELSE IF session.attempts_remaining = 0
        THEN Reply(st, StateResponse("failed", p))
        ELSE Reply(st, StateResponse(session.game_status, p))

\* send_bot_message without the check of the credential
send_bot_message_unverified(st, p, r, e) ==
    LET message_id == send_discord_message_with_image(st.posted, e)
    IN  IF r.channel # "image"
        THEN Reply(st, Response(400, "missing_field", FALSE, p))
        ELSE IF IsNone(message_id) THEN Reply(st, Response(500, "failed", FALSE, p))
        ELSE [Reply(st, Response(200, "none", TRUE, p)) EXCEPT
                 !.chat = st.chat \cup message_id, !.posted = Val(message_id)]

\* send_bot_message of the api_handler: it posts the image of the body to the
\* channel of the body; the body needs channel_id, content and image_data
send_bot_message(st, p, r, e) ==
    LET message_id == send_discord_message_with_image(st.posted, e)
    IN  IF ~r.auth THEN Reply(st, Response(401, "auth", FALSE, "nobody"))
        ELSE IF r.channel # "image"
        THEN Reply(st, Response(400, "missing_field", FALSE, p))
        ELSE IF IsNone(message_id) THEN Reply(st, Response(500, "failed", FALSE, p))
        ELSE [Reply(st, Response(200, "none", TRUE, p)) EXCEPT
                 !.chat = st.chat \cup message_id, !.posted = Val(message_id)]

\* the routes that ask for a credential
Routes ==
    {"daily-puzzle", "leaderboard", "game-state", "save-progress",
     "send-bot-message"}

\* lambda_handler of the api_handler: it parses the body, when there is one,
\* before it routes the request; a body that is not JSON ends the request there
lambda_handler(st, D, d, p, req, e) ==
    IF ~req.json THEN Reply(st, Response(400, "invalid_json", FALSE, "nobody"))
    ELSE IF req.route = "daily-puzzle" THEN get_daily_puzzle(st, D, d, p, req.body)
    ELSE IF req.route = "leaderboard" THEN get_leaderboard(st, d, p, req.body)
    ELSE IF req.route = "game-state" THEN get_game_state(st, d, p, req.body)
    ELSE IF req.route = "save-progress" THEN handle_save(st, d, p, req.body, e)
    ELSE IF req.route = "send-bot-message" THEN send_bot_message(st, p, req.body, e)
    ELSE Reply(st, Response(404, "not_found", FALSE, "nobody"))

----------------------------------------------------------------------------
(* The state machine *)

State == [players |-> players, sessions |-> sessions, channels |-> channels,
          chat |-> chat, posted |-> posted]

\* the tables as they are created: empty, and no request has been handled
InitTables ==
    /\ today = 1
    /\ players = << >>
    /\ sessions = << >>
    /\ channels = {}
    /\ chat = {}
    /\ posted = 0
    /\ response = Response(0, "none", FALSE, "nobody")
    /\ daily_puzzles = << >>
    /\ historical_puzzles = << >>
    /\ gen_date = None
    /\ gen_attempts = 0
    /\ inflight = << >>

Init ==
    /\ InitTables
    /\ candidate = << >>
    /\ verdict = "none"

\* the guess log of the session of (p, today) has room for one more guess
HasRoom(p) ==
    \A i \in SessionIds(sessions, p, today) : Len(sessions[i].guesses) < MaxGuesses

\* one save-progress request of player p, handled to its response; a request
\* that gets as far as the save needs room in the guess log
SaveProgress(p, r, e) ==
    /\ (r.auth /\ r.fields /\ ~has_user_completed_daily_puzzle(sessions, p, today))
          => HasRoom(p)
    /\ LET out == handle_save(State, today, p, r, e)
       IN  /\ players' = out.players
           /\ sessions' = out.sessions
           /\ channels' = out.channels
           /\ chat' = out.chat
           /\ posted' = out.posted
           /\ response' = out.response
    /\ UNCHANGED <<today, others>>

\* midnight (US/Eastern): current_date moves to the next day
NextDay ==
    /\ today < MaxDays
    /\ today' = today + 1
    /\ UNCHANGED <<players, sessions, channels, chat, posted, response, others>>

\* the requests player p sends in the session protocol
RequestsOf(p) == IF p = "p1" THEN CoreRequests ELSE OtherRequests

\* The session protocol within one day: the requests of two players, one at a
\* time, with no channel.
Next ==
    \E p \in Players : \E r \in RequestsOf(p) : SaveProgress(p, r, QuietEnv)

Spec == Init /\ [][Next]_vars

\* One player over several days.
NextDays ==
    \/ \E r \in DayRequests : SaveProgress("p1", r, QuietEnv)
    \/ NextDay

SpecDays == Init /\ [][NextDays]_vars

\* One player within one day, sending from a channel: every outcome of the
\* calls to the chat platform and of the channel registration.
NextMsg ==
    \E r \in MsgRequests : \E e \in Envs : SaveProgress("p1", r, e)

SpecMsg == Init /\ [][NextMsg]_vars

\* the requests of the runs that follow the guess log: each guess with a game
\* left in progress, a lost game and a won game, and a request without a
\* credential
LogRequests ==
    {BodyOf(g, MaxAttempts - 1, {}, None, "none") : g \in GuessVals}
    \cup {BodyOf(g, MaxAttempts, {1}, None, "none") : g \in GuessVals}
    \cup {BodyOf(g, MaxAttempts - 2, {1, 2}, None, "none") : g \in GuessVals}
    \cup {BodyOf(g, 0, {1}, None, "none") : g \in GuessVals}
    \cup {BodyOf(g, 1, 1..NumGroups, Some(1), "none") : g \in GuessVals}
    \cup {[BodyOf("g1", MaxAttempts, {}, None, "none") EXCEPT !.auth = FALSE]}

\* One player within one day, one request at a time, every store call
\* succeeding.
NextLog ==
    \E r \in LogRequests : SaveProgress("p1", r, QuietEnv)

SpecLog == Init /\ [][NextLog]_vars

\* outcomes of the lookups of the session, the other calls succeeding
LookupEnvs ==
    {[QuietEnv EXCEPT !.guard = g, !.read = r, !.query = q] :
        g \in {"ok", "fail"}, r \in {"ok", "fail"}, q \in {"ok", "fail"}}

\* the requests of the runs with failing lookups: guesses that leave the game
\* in progress and a won game
LookupRequests ==
    {BodyOf(g, MaxAttempts - 1, {1}, None, "none") : g \in GuessVals}
    \cup {BodyOf(g, MaxAttempts - 2, {1, 2}, None, "none") : g \in GuessVals}
    \cup {BodyOf("g1", 1, 1..NumGroups, Some(1), "none")}

\* One player within one day, one request at a time, with every outcome of the
\* lookups of the session.
NextLookup ==
    \E r \in LookupRequests : \E e \in LookupEnvs :
        /\ HasRoom("p1")
        /\ Len(sessions) < MaxSessions
        /\ "p1" \in DOMAIN players => players["p1"].total_games < MaxSessions
        /\ SaveProgress("p1", r, e)

SpecLookup == Init /\ [][NextLookup]_vars

\* One player within one day, with every outcome of the store writes.
NextFault ==
    \E r \in FaultRequests : \E e \in FaultEnvs : SaveProgress("p1", r, e)

SpecFault == Init /\ [][NextFault]_vars

\* the bodies of the requests to the routes: a guess that leaves the game in
\* progress and a won game, sent from a channel with the image of the game state,
\* and a body without image_data
ApiBodies ==
    {BodyOf("g1", MaxAttempts - 1, {1}, None, "image"),
     BodyOf("g2", 1, 1..NumGroups, Some(1), "image"),
     BodyOf("g1", MaxAttempts - 1, {1}, None, "plain")}

\* the requests to the routes: with and without a valid bearer credential, with
\* a body that parses as JSON and with one that does not
ApiRequests ==
    {[route |-> rt, json |-> j, body |-> [b EXCEPT !.auth = a]] :
        rt \in Routes, j \in BOOLEAN, a \in BOOLEAN, b \in ApiBodies}

\* one request to a route of the api_handler, handled to its response; a request
\* that posts to the channel needs room in it, one that saves a guess needs room
\* in the guess log
ApiRequest(p, req, e) ==
    /\ (req.json /\ req.body.auth /\ req.route = "send-bot-message")
          => posted < MaxPosts
    /\ (req.json /\ req.body.auth /\ req.route = "save-progress"
           /\ ~has_user_completed_daily_puzzle(sessions, p, today))
          => HasRoom(p)
    /\ LET out == lambda_handler(State, daily_puzzles, today, p, req, e)
       IN  /\ players' = out.players
           /\ sessions' = out.sessions
           /\ channels' = out.channels
           /\ chat' = out.chat
           /\ posted' = out.posted
           /\ response' = out.response
    /\ UNCHANGED <<today, others>>

\* The routes of the api_handler within one day: the requests of one player, one
\* at a time.
NextApi ==
    \E req \in ApiRequests : ApiRequest("p1", req, QuietEnv)

SpecApi == Init /\ [][NextApi]_vars

----------------------------------------------------------------------------
(* Concurrent save-progress requests *)

\* the requests of the concurrent runs: guesses that leave the game in
\* progress and a won game, with no channel
RaceRequests ==
    {BodyOf("g1", MaxAttempts - 1, {1}, None, "none"),
     BodyOf("g2", MaxAttempts - 2, {1}, None, "none"),
     BodyOf("g2", 1, 1..NumGroups, Some(1), "none")}

\* a save-progress request in flight: its body, its position in the handler,
\* the session the handler read (existing_session), the session id
\* DynamoDBClient.save_game_progress read and then wrote, and whether another
\* request wrote between the handler's read and this request's write
InFlight(r, pc, existing, sid, stale) ==
    [r |-> r, pc |-> pc, existing |-> existing, sid |-> sid, stale |-> stale]

\* the write of DynamoDBClient.save_game_progress done as one conditional
\* append: it looks the session up and extends the stored log in the write
save_game_progress_write_atomic(S, p, d, q) ==
    LET sid0 == get_user_game_session(S, p, d)
        existing == IF IsNone(sid0) THEN None ELSE Some(S[Val(sid0)])
    IN  db_save_game_progress(S, p, d, current_guesses(S, existing, q.r),
                              q.r.attempts_remaining, q.r.solved_groups)

\* the write of DynamoDBClient.save_game_progress: update_item on the session
\* its query found, put_item of a new session (with a fresh uuid) when the query
\* found none; the log written is the one the handler read plus the new guess
save_game_progress_write(S, p, d, q) ==
    LET guesses == current_guesses(S, q.existing, q.r)
    IN  IF ~IsNone(q.sid)
        THEN [sessions |->
                [S EXCEPT ![Val(q.sid)] =
                    [@ EXCEPT !.guesses = guesses,
                              !.attempts_remaining = q.r.attempts_remaining,
                              !.solved_groups = q.r.solved_groups,
                              !.game_status = GameStatus(q.r.attempts_remaining,
                                                         q.r.solved_groups)]],
              session_id |-> Val(q.sid)]
        ELSE [sessions |-> Append(S, NewSession(p, d, guesses,
                                      q.r.attempts_remaining, q.r.solved_groups)),
              session_id |-> Len(S) + 1]

\* a request arrives and the handler runs to its read of the session: the
\* player is created, a completed game is turned away, the session is read
Begin(p, r) ==
    LET sid0 == get_user_game_session(sessions, p, today)
        existing == IF IsNone(sid0) THEN None ELSE Some(sessions[Val(sid0)])
        rejected == has_user_completed_daily_puzzle(sessions, p, today)
    IN  /\ Len(inflight) < MaxRequests
        /\ players' = get_or_create_player(players, p)
        /\ inflight' = Append(inflight,
               InFlight(r, IF rejected THEN "rejected" ELSE "query",
                        existing, None, FALSE))
        /\ response' = IF rejected
                       THEN Response(400, "already_completed", FALSE, p)
                       ELSE response
        /\ UNCHANGED <<today, sessions, channels, chat, posted, daily_puzzles,
                       historical_puzzles, gen_date, gen_attempts, candidate,
                       verdict>>

\* DynamoDBClient.save_game_progress looks the session up
Query(p, i) ==
    /\ inflight[i].pc = "query"
    /\ inflight' = [inflight EXCEPT
                       ![i].sid = get_user_game_session(sessions, p, today),
                       ![i].pc = "write"]
    /\ UNCHANGED <<today, players, sessions, channels, chat, posted, response,
                   daily_puzzles, historical_puzzles, gen_date, gen_attempts,
                   candidate, verdict>>

\* DynamoDBClient.save_game_progress writes the session; the requests that have
\* read and not yet written now hold a log that is out of date
Write(p, i) ==
    LET out == save_game_progress_write(sessions, p, today, inflight[i])
    IN  /\ inflight[i].pc = "write"
        /\ sessions' = out.sessions
        /\ inflight' =
               [j \in DOMAIN inflight |->
                   IF j = i
                   THEN [inflight[j] EXCEPT !.sid = Some(out.session_id),
                                            !.pc = "finish"]
                   ELSE IF inflight[j].pc \in {"query", "write"}
                   THEN [inflight[j] EXCEPT !.stale = TRUE]
                   ELSE inflight[j]]
        /\ UNCHANGED <<today, players, channels, chat, posted, response,
                       daily_puzzles, historical_puzzles, gen_date,
                       gen_attempts, candidate, verdict>>

\* the rest of the handler: no channel, so no message and no registration; the
\* game is finalized when it is over, and the request is answered
Finish(p, i) ==
    LET q == inflight[i]
        fin == finalize_game(players, sessions, p, Val(q.sid), q.r, QuietEnv)
    IN  /\ q.pc = "finish"
        /\ players' = fin.players
        /\ sessions' = fin.sessions
        /\ response' = Response(200, "none", FALSE, p)
        /\ inflight' = [inflight EXCEPT ![i].pc = "done"]
        /\ UNCHANGED <<today, channels, chat, posted, daily_puzzles,
                       historical_puzzles, gen_date, gen_attempts, candidate,
                       verdict>>

\* Concurrent requests of one player within one day: the store calls of the
\* requests interleave.
NextRace ==
    \/ \E r \in RaceRequests : Begin("p1", r)
    \/ \E i \in DOMAIN inflight :
          Query("p1", i) \/ Write("p1", i) \/ Finish("p1", i)

SpecRace == Init /\ [][NextRace]_vars

----------------------------------------------------------------------------
(* The daily generator, the validator, the ranking and the archive *)

\* a run of the daily generator for a date that has a puzzle: it reports the
\* puzzle and makes no attempt
DailyGeneratorExists ==
    /\ IsNone(gen_date)
    /\ ~IsNone(db_get_daily_puzzle(daily_puzzles, today))
    /\ gen_attempts' = 0
    /\ response' = GenResponse(200, "exists")
    /\ UNCHANGED <<today, players, sessions, channels, chat, posted,
                   daily_puzzles, historical_puzzles, gen_date, candidate,
                   verdict, inflight>>

\* one pass of the loop of the daily generator: the first pass of a run that
\* starts (scheduled or triggered by hand) on a date without a puzzle, or the
\* next pass of the run in progress; the last pass of a run goes on to the
\* response.  While a run is in progress candidate is its local puzzle_data:
\* empty until a call of generate_puzzle has returned, then the puzzle the last
\* such call returned (an exception leaves the variable as it was).
DailyGeneratorAttempt(run) ==
    LET starts == IsNone(gen_date)
        d == IF starts THEN today ELSE Val(gen_date)
        k == IF starts THEN 1 ELSE gen_attempts + 1
        out == generator_attempt(daily_puzzles, historical_puzzles, d, k, run)
        puzzle_data == generate_puzzle(run)
    IN  /\ starts => IsNone(db_get_daily_puzzle(daily_puzzles, today))
        /\ gen_attempts' = k
        /\ gen_date' = IF out.done THEN None ELSE Some(d)
        /\ candidate' = IF out.done THEN << >>
                        ELSE IF IsNone(puzzle_data) THEN candidate
                        ELSE <<Val(puzzle_data)>>
        /\ daily_puzzles' = out.daily_puzzles
        /\ historical_puzzles' = out.historical_puzzles
        /\ response' = IF out.done THEN out.response ELSE response
        /\ UNCHANGED <<today, players, sessions, channels, chat, posted,
                       verdict, inflight>>

\* The daily generator over several days, one run at a time; a run is over
\* before the date changes.
NextGen ==
    \/ DailyGeneratorExists
    \/ \E run \in GenRuns : DailyGeneratorAttempt(run)
    \/ IsNone(gen_date) /\ NextDay

SpecGen == Init /\ [][NextGen]_vars

\* The validator applied to a candidate puzzle.
InitValidate ==
    /\ InitTables
    /\ candidate \in Candidates
    /\ verdict = "none"

Validate ==
    /\ verdict = "none"
    /\ verdict' = validate_puzzle(candidate)
    /\ UNCHANGED <<today, players, sessions, channels, chat, posted, response,
                   daily_puzzles, historical_puzzles, gen_date, gen_attempts,
                   candidate, inflight>>

SpecValidate == InitValidate /\ [][Validate]_vars

\* The ranking of the games of a date, computed from a table of sessions.
InitRank ==
    /\ today = 1
    /\ players = << >>
    /\ \E n \in 0..MaxGames : sessions \in RankTables(n)
    /\ channels = {}
    /\ chat = {}
    /\ posted = 0
    /\ response = Response(0, "none", FALSE, "nobody")
    /\ daily_puzzles = << >>
    /\ historical_puzzles = << >>
    /\ gen_date = None
    /\ gen_attempts = 0
    /\ inflight = << >>
    /\ candidate = << >>
    /\ verdict = << >>

GetAllDailyGames(d) ==
    /\ candidate = << >>
    /\ candidate' = <<d>>
    /\ verdict' = get_all_daily_games(sessions, d)
    /\ UNCHANGED <<today, players, sessions, channels, chat, posted, response,
                   daily_puzzles, historical_puzzles, gen_date, gen_attempts,
                   inflight>>

NextRank == \E d \in 1..2 : GetAllDailyGames(d)

SpecRank == InitRank /\ [][NextRank]_vars

\* The historical archive: groups are saved to it and looked up in it.
SaveHistorical(puzzle) ==
    /\ historical_puzzles' = save_historical_puzzle(historical_puzzles, puzzle)
    /\ candidate' = << >>
    /\ verdict' = "none"
    /\ UNCHANGED <<today, players, sessions, channels, chat, posted, response,
                   daily_puzzles, gen_date, gen_attempts, inflight>>

CheckDuplicate(puzzle) ==
    /\ candidate' = puzzle
    /\ verdict' = IF check_duplicate_groups(historical_puzzles, puzzle)
                  THEN "true" ELSE "false"
    /\ UNCHANGED <<today, players, sessions, channels, chat, posted, response,
                   daily_puzzles, historical_puzzles, gen_date, gen_attempts,
                   inflight>>

NextArchive ==
    \E puzzle \in ArchivePuzzles : SaveHistorical(puzzle) \/ CheckDuplicate(puzzle)

SpecArchive == Init /\ [][NextArchive]_vars

----------------------------------------------------------------------------
(* Properties *)

\* the sessions of player p for the current date
TodaySessions(p) == SessionIds(sessions, p, today)

\* p's session of the current date has been marked completed
MarkedCompleted(p) == \E i \in TodaySessions(p) : sessions[i].completed

\* p's session of the current date is failed
IsFailed(p) == \E i \in TodaySessions(p) : sessions[i].game_status = "failed"

\* the step handles a save-progress request whose credential names p
RequestBy(p) == today' = today /\ response'.who = p

\* a session's protocol state: all but the chat-message back-reference
Core(s) ==
    [game_status |-> s.game_status, guesses |-> s.guesses,
     attempts_remaining |-> s.attempts_remaining, solved_groups |-> s.solved_groups]

Terminal(s) == s.game_status \in {"completed", "failed"}

\* the stats of p before the step (those of a new player when p has no item yet)
StatsBefore(p) ==
    IF p \in DOMAIN players THEN players[p]
    ELSE [total_games |-> 0, games_won |-> 0, best_time |-> None]

\* session i has status st after the step and is new or had another status before
Becomes(i, st) ==
    /\ sessions'[i].game_status = st
    /\ i > Len(sessions) \/ sessions[i].game_status # st

\* session i goes from new or in progress to status st in the step
Reaches(i, st) ==
    /\ sessions'[i].game_status = st
    /\ i > Len(sessions) \/ sessions[i].game_status = "in_progress"

\* C1: once the session of (player, date) is marked completed, every later
\* save-progress request of that player on that date gets the error response
\* 400 and leaves the player's total_games, games_won and best_time as they were.
C1_CompletedReplayRejected ==
    [][\A p \in Players :
          (MarkedCompleted(p) /\ RequestBy(p)) =>
              (response'.code = 400 /\ players'[p] = players[p])]_vars

\* a replay against a completed session has been rejected
C1_Witness ==
    /\ response.error = "already_completed"
    /\ MarkedCompleted("p1")
    /\ players["p1"].total_games = 1

\* C2: once the session of (player, date) is failed, every later save-progress
\* request of that player on that date is rejected and leaves the player's
\* total_games, games_won and best_time as they were.
C2_FailedReplayRejected ==
    [][\A p \in Players :
          (IsFailed(p) /\ RequestBy(p)) =>
              (response'.code >= 400 /\ players'[p] = players[p])]_vars

\* C3: once a session's status is completed or failed, no later request changes
\* its status, guesses, attempts_remaining or solved_groups.
C3_TerminalImmutable ==
    [][\A i \in 1..Len(sessions) :
          Terminal(sessions[i]) => Core(sessions'[i]) = Core(sessions[i])]_vars

\* C4: a save-progress request with all 4 groups in solved_groups leaves the
\* session with status completed and marked completed, whatever its
\* attempts_remaining and completion_time, also when it creates the session.
C4_FourGroupsCompletes ==
    [][\A p \in Players : \A r \in RequestsOf(p) :
          (/\ r.auth /\ r.fields
           /\ Cardinality(r.solved_groups) = NumGroups
           /\ SaveProgress(p, r, QuietEnv)) =>
              \E i \in SessionIds(sessions', p, today) :
                  sessions'[i].game_status = "completed" /\ sessions'[i].completed]_vars

\* C5: over the accepted requests of a session that is in progress, the stored
\* attempts_remaining never increases and the number of stored solved_groups
\* never decreases.
C5_Monotone ==
    [][\A i \in 1..Len(sessions) :
          ~Terminal(sessions[i]) =>
              /\ sessions'[i].attempts_remaining <= sessions[i].attempts_remaining
              /\ Cardinality(sessions'[i].solved_groups)
                    >= Cardinality(sessions[i].solved_groups)]_vars

\* C6: the step in which a session that is new or in progress gets status
\* completed adds exactly 1 to its player's total_games and exactly 1 to games_won.
C6_CompletedCounts ==
    [][\A i \in 1..Len(sessions') :
          Reaches(i, "completed") =>
              LET p == sessions'[i].discord_id
              IN  /\ players'[p].total_games = StatsBefore(p).total_games + 1
                  /\ players'[p].games_won = StatsBefore(p).games_won + 1]_vars

\* the completion times of the sessions of p that are marked completed
CompletedTimes(p) ==
    {Val(sessions[i].completion_time) :
        i \in {j \in 1..Len(sessions) :
                  sessions[j].discord_id = p /\ sessions[j].completed}}

\* C7: a player's best_time is unset while no session of the player is
\* completed, and is the minimum completion_time of the completed sessions
\* after any sequence of them.
C7_BestTimeIsMinimum ==
    \A p \in DOMAIN players :
        LET T == CompletedTimes(p)
        IN  IF T = {} THEN players[p].best_time = None
            ELSE players[p].best_time = Some(CHOOSE t \in T : \A u \in T : t <= u)

\* three completed sessions: the first time 2, an equal time, then the smaller 1
C7_Witness ==
    /\ Len(sessions) = 3
    /\ \A i \in 1..3 : sessions[i].completed
    /\ sessions[1].completion_time = Some(2)
    /\ sessions[2].completion_time = Some(2)
    /\ sessions[3].completion_time = Some(1)
    /\ players["p1"].best_time = Some(1)

\* C8: the step in which a session's status becomes failed adds exactly 1 to
\* its player's total_games and leaves games_won and best_time as they were.
C8_FailedCounts ==
    [][\A i \in 1..Len(sessions') :
          Becomes(i, "failed") =>
              LET p == sessions'[i].discord_id
              IN  /\ players'[p].total_games = StatsBefore(p).total_games + 1
                  /\ players'[p].games_won = StatsBefore(p).games_won
                  /\ players'[p].best_time = StatsBefore(p).best_time]_vars

\* a session has failed and its player has one game, none won
C8_Witness ==
    \E i \in 1..Len(sessions) :
        /\ sessions[i].game_status = "failed"
        /\ sessions[i].attempts_remaining = 0
        /\ players[sessions[i].discord_id].total_games = 1
        /\ players[sessions[i].discord_id].games_won = 0

\* C9: with requests handled one at a time, at most one session item exists for
\* every (player, date): the first request creates it, later ones update it.
C9_OneSessionPerKey ==
    \A p \in Players : \A d \in 1..MaxDays :
        Cardinality(SessionIds(sessions, p, d)) <= 1

\* a second request of a player has updated the session the first one created
C9_Witness ==
    /\ Len(sessions) = 2
    /\ \E i \in 1..2 : Len(sessions[i].guesses) = 2

\* the session carries a completion marker: completed is set or it is failed
Marked(s) == s.completed \/ s.game_status = "failed"

\* C11: a save-progress request leaves no partial mutation, also when a store
\* write fails in it: the step marks the player's session of the date completed
\* or failed if and only if it adds the game to the player's total_games.
C11_NoPartialMutation ==
    [][\A p \in Players :
          RequestBy(p) =>
              \A i \in SessionIds(sessions', p, today) :
                  (i > Len(sessions) \/ ~Marked(sessions[i])) =>
                      (Marked(sessions'[i])
                          <=> players'[p].total_games = StatsBefore(p).total_games + 1)]_vars

\* the sessions without their chat-message back-reference
Cores(S) == [i \in 1..Len(S) |-> [S[i] EXCEPT !.discord_message_id = None]]

\* C10: whatever fails in posting or editing the chat message or in registering
\* the channel, the request has the response code, the stored sessions (but for
\* the back-reference) and the player stats it has when nothing fails.
C10_MessagingFailureHarmless ==
    \A r \in MsgRequests : \A e \in Envs :
        LET got == handle_save(State, today, "p1", r, e)
            ref == handle_save(State, today, "p1", r, QuietEnv)
        IN  /\ got.response.code = ref.response.code
            /\ got.players = ref.players
            /\ Cores(got.sessions) = Cores(ref.sessions)

\* one request with an image completed the game: it was answered 200, the
\* session is marked completed and the stats are updated, while no message
\* was posted and no channel registered
C10_Witness ==
    /\ Len(sessions) = 1
    /\ sessions[1].guesses = <<"g1">>
    /\ sessions[1].completed
    /\ players["p1"].games_won = 1
    /\ posted = 0
    /\ channels = {}
    /\ response.code = 200

----------------------------------------------------------------------------
(* Properties of the validator *)

\* the places of the words of puzzle c
WordAt(c) ==
    UNION {{<<g, k>> : k \in 1..Len(c[g].words)} : g \in 1..Len(c)}

TheWord(c, at) == c[at[1]].words[at[2]]

\* 4 groups of 4 words each
ShapeOk(c) ==
    Len(c) = NumGroups /\ \A g \in 1..Len(c) : Len(c[g].words) = GroupSize

\* whitespace between the first and the last other character of the word
InternalWhitespace(w) == \E ws \in Whitespace : Contains(strip(w), ws)

\* a space between the first and the last other character of the word
InternalSpace(w) == Contains(strip(w), Space)

\* two places hold the same word, letter case apart
RepeatedWord(c) ==
    \E a, b \in WordAt(c) : a # b /\ upper(TheWord(c, a)) = upper(TheWord(c, b))

\* the difficulties are 1, 2, 3, 4, each of one group
DifficultiesOk(c) ==
    /\ \A g \in 1..Len(c) : c[g].difficulty \in 1..NumGroups
    /\ \A d \in 1..NumGroups :
          Cardinality({g \in 1..Len(c) : c[g].difficulty = d}) = 1

RepeatedCategory(c) ==
    \E g, h \in 1..Len(c) : g # h /\ c[g].category = c[h].category

\* the candidate is valid as the validator's contract states it
ContractValid(c) ==
    /\ ShapeOk(c)
    /\ \A at \in WordAt(c) : ~InternalWhitespace(TheWord(c, at))
    /\ ~RepeatedWord(c)
    /\ DifficultiesOk(c)
    /\ ~RepeatedCategory(c)

\* every word has a character that is not whitespace
NoEmptyWord(c) == \A at \in WordAt(c) : strip(TheWord(c, at)) # << >>

\* a capital first letter followed by a lower-case letter
Capitalised(w) ==
    LET t == strip(w)
    IN  t # << >> /\ t[1] \in UpperChars /\ \E i \in 2..Len(t) : t[i] \in LowerChars

\* what the code asks of a puzzle beyond the contract: plain words, and words
\* and categories that stay distinct when surrounding whitespace is dropped
PlainWords(c) ==
    /\ NoEmptyWord(c)
    /\ \A at \in WordAt(c) :
          ~Contains(TheWord(c, at), Hyphen) /\ ~Capitalised(TheWord(c, at))
    /\ \A a, b \in WordAt(c) :
          a # b => upper(strip(TheWord(c, a))) # upper(strip(TheWord(c, b)))
    /\ \A g, h \in 1..Len(c) : g # h => strip(c[g].category) # strip(c[h].category)

\* C12 as stated: validate returns true for every candidate with 4 groups of 4
\* words without internal whitespace, 16 words pairwise distinct letter case
\* apart, difficulties 1, 2, 3, 4 once each and 4 pairwise distinct categories.
C12_ValidAccepted ==
    (verdict # "none" /\ ContractValid(candidate)) => verdict = "true"

\* C12 amended: validate returns true for every such candidate whose words are
\* moreover not empty, hold no hyphen, are not a capital followed by a
\* lower-case letter, and whose words and categories are distinct also after
\* trimming.
C12_PlainValidAccepted ==
    (verdict # "none" /\ ContractValid(candidate) /\ PlainWords(candidate))
        => verdict = "true"

\* a puzzle with a lower-case word and its difficulties in descending order
\* has been accepted
C12_Witness ==
    /\ verdict = "true"
    /\ candidate = CandidateOf(<<4, 3, 2, 1>>, <<"B">>, <<1, 1>>, <<"a", "b", "c">>, "same")

\* the number of the contract's five conditions the candidate violates
Violations(c, InternalGap(_)) ==
    Cardinality({v \in 1..5 :
        \/ v = 1 /\ ~ShapeOk(c)
        \/ v = 2 /\ RepeatedWord(c)
        \/ v = 3 /\ ~DifficultiesOk(c)
        \/ v = 4 /\ RepeatedCategory(c)
        \/ v = 5 /\ \E at \in WordAt(c) : InternalGap(TheWord(c, at))})

----------------------------------------------------------------------------
(* Properties of the historical archive *)

\* the words of a group as a set, letter case apart
FoldSet(words) == {upper(words[i]) : i \in 1..Len(words)}

\* C14: the duplicate check does not depend on word order or letter case: a
\* candidate with a group whose words are, as a set and letter case apart, the
\* words of a group saved to the archive is reported as a duplicate.
C14_DuplicateAnyOrderAnyCase ==
    (/\ verdict # "none"
     /\ \E g \in 1..Len(candidate) : \E key \in DOMAIN historical_puzzles :
           FoldSet(candidate[g].words) = FoldSet(historical_puzzles[key].words))
        => verdict = "true"

\* a duplicate has been reported for a candidate none of whose groups has its
\* words stored in the archive in the same order and letter case
C14_Witness ==
    /\ verdict = "true"
    /\ \A g \in 1..Len(candidate) : \A key \in DOMAIN historical_puzzles :
          candidate[g].words # historical_puzzles[key].words

----------------------------------------------------------------------------
(* Properties of the daily generator *)

\* the date of the run a pass of the loop belongs to
RunDate == IF IsNone(gen_date) THEN today ELSE Val(gen_date)

\* the run that made the step is over and has saved puzzle for its date
SavedAs(puzzle) ==
    /\ gen_date' = None
    /\ RunDate \in DOMAIN daily_puzzles'
    /\ daily_puzzles'[RunDate] = puzzle
    /\ response'.code = 200

\* C15: a run of the daily generator makes at most 5 generate-and-check
\* attempts; the attempt that returns a puzzle with no group in the archive
\* ends the run and that puzzle is saved; an attempt before the 5th that returns
\* a puzzle with a group in the archive saves nothing and the run goes on; the
\* 5th attempt that returns such a puzzle ends the run and that puzzle is saved.
C15_AtMostFiveAttempts ==
    [][/\ gen_attempts' <= MaxGenAttempts
       /\ \A run \in GenRuns :
             (DailyGeneratorAttempt(run) /\ ~IsNone(generate_puzzle(run))) =>
                 LET puzzle == Val(generate_puzzle(run))
                     duplicate ==
                         check_duplicate_groups(historical_puzzles, puzzle.groups)
                 IN  IF ~duplicate \/ gen_attempts' = MaxGenAttempts
                     THEN SavedAs(puzzle)
                     ELSE /\ gen_date' # None
                          /\ daily_puzzles' = daily_puzzles
                          /\ historical_puzzles' = historical_puzzles]_vars

\* on the second date the 5th attempt of the run saved the puzzle of the first
\* date again, and on the third date the third attempt of the run saved a puzzle
C15_Witness ==
    /\ today = 3
    /\ DOMAIN daily_puzzles = 1..3
    /\ daily_puzzles[2].groups = daily_puzzles[1].groups
    /\ gen_date = None
    /\ gen_attempts = 3
    /\ response.code = 200

----------------------------------------------------------------------------
(* Properties of the ranking *)

\* the place in the table of the session a ranked game was built from
PlaceOf(game) ==
    CHOOSE i \in 1..Len(sessions) : sessions[i].discord_id = game.discord_id

\* C16: the ranking of the sessions of a date has every session of the date
\* once, with the ranks 1, 2, ..., n in its order; every completed game comes
\* before every incomplete one; completed games are in ascending order of
\* completion_time, equal times in the order of the input; incomplete games are
\* in descending order of solved groups, then ascending order of attempts used.
C16_Ranking ==
    candidate # << >> =>
        LET n == Len(verdict)
            dated == {i \in 1..Len(sessions) : sessions[i].puzzle_date = candidate[1]}
        IN  /\ n = Cardinality(dated)
            /\ {PlaceOf(verdict[k]) : k \in 1..n} = dated
            /\ \A k \in 1..n : verdict[k].rank = k
            /\ \A i, j \in 1..n :
                  i < j =>
                      LET x == verdict[i]
                          y == verdict[j]
                      IN  /\ ~(~x.completed /\ y.completed)
                          /\ (x.completed /\ y.completed) =>
                                \/ Val(x.completion_time) < Val(y.completion_time)
                                \/ /\ x.completion_time = y.completion_time
                                   /\ PlaceOf(x) < PlaceOf(y)
                          /\ (~x.completed /\ ~y.completed) =>
                                \/ x.solved_groups_count > y.solved_groups_count
                                \/ /\ x.solved_groups_count = y.solved_groups_count
                                   /\ x.attempts_used <= y.attempts_used

\* four games ranked: two completed ones with the same time, then two
\* incomplete ones with the same solved groups and different attempts used, the
\* last of them being the first session of the table
C16_Witness ==
    /\ Len(verdict) = 4
    /\ verdict[1].completed /\ verdict[2].completed
    /\ verdict[1].completion_time = verdict[2].completion_time
    /\ ~verdict[3].completed /\ ~verdict[4].completed
    /\ verdict[3].solved_groups_count = verdict[4].solved_groups_count
    /\ verdict[3].attempts_used < verdict[4].attempts_used
    /\ PlaceOf(verdict[4]) = 1

----------------------------------------------------------------------------
(* The routes and the credential *)

\* the stores a request can write to and the channel it can post to
Stores == <<players, sessions, channels, chat, posted>>

----------------------------------------------------------------------------
(* Concurrent requests *)

\* the requests whose guess was accepted and written
Written == {i \in DOMAIN inflight : inflight[i].pc \in {"finish", "done"}}

\* some request read the session before another request's write and wrote
\* after it
StaleWrite == \E i \in Written : inflight[i].stale

\* two session records exist for the player and the date
TwoRecords == Cardinality(SessionIds(sessions, "p1", today)) >= 2

\* the guess log of the session holds fewer guesses than were accepted
LostGuess ==
    \E i \in SessionIds(sessions, "p1", today) :
        /\ i = Val(get_user_game_session(sessions, "p1", today))
        /\ Len(sessions[i].guesses) < Cardinality(Written)

\* C18: the handler's check-then-write is not atomic: when a request reads the
\* session before another request's write and writes after it (both requests
\* read before either writes), the guess log lacks an accepted guess or two
\* session records exist for the same player and date.
C18_RaceLosesGuessOrDuplicates ==
    StaleWrite => LostGuess \/ TwoRecords

\* two requests read, with both lookups, before either wrote, and both wrote:
\* two session records exist
C18_Witness ==
    /\ StaleWrite
    /\ TwoRecords
    /\ Cardinality(Written) = 2

\* two requests read an existing session before either wrote, and both wrote:
\* the log holds one guess less than were accepted
C18_WitnessLostGuess ==
    /\ StaleWrite
    /\ ~TwoRecords
    /\ LostGuess
    /\ \A i \in Written : inflight[i].stale => ~IsNone(inflight[i].existing)

----------------------------------------------------------------------------
(* The guess log *)

\* the guess log stored for player p1 and the date in table S, empty without a
\* session
LogOf(S) ==
    LET sid == get_user_game_session(S, "p1", today)
    IN  IF IsNone(sid) THEN << >> ELSE S[Val(sid)].guesses

\* C19: with requests handled one at a time and every store call succeeding,
\* each accepted save-progress request appends exactly its one guess to the
\* session's guess log; the log of a session the request creates holds exactly
\* that guess.
C19_AppendsItsGuess ==
    [][\A r \in LogRequests :
          (SaveProgress("p1", r, QuietEnv) /\ response'.code = 200)
              => /\ LogOf(sessions') = LogOf(sessions) \o <<r.guess>>
                 /\ Cardinality(SessionIds(sessions', "p1", today)) = 1
                 /\ \A i \in DOMAIN sessions :
                       i \notin SessionIds(sessions, "p1", today)
                           => sessions'[i].guesses = sessions[i].guesses]_vars

\* a request created a session and another appended to it
C19_Witness ==
    /\ response.code = 200
    /\ LogOf(sessions) = <<"g2", "g1">>

----------------------------------------------------------------------------
(* The stored status *)

\* C20: in every state after a save-progress request has returned, the stored
\* status agrees with the stored counters: a session with status in_progress
\* has fewer than 4 solved groups and attempts_remaining > 0, a session with 4
\* solved groups has status completed, and a session with attempts_remaining 0
\* and fewer than 4 solved groups has status failed.
C20_StatusAgreesWithCounters ==
    \A i \in DOMAIN sessions :
        LET s == sessions[i]
            solved == Cardinality(s.solved_groups)
        IN  /\ s.game_status = "in_progress"
                  => solved < NumGroups /\ s.attempts_remaining > 0
            /\ solved = NumGroups => s.game_status = "completed"
            /\ (s.attempts_remaining = 0 /\ solved < NumGroups)
                  => s.game_status = "failed"

----------------------------------------------------------------------------
(* One puzzle per date *)

\* C21: a run of the daily generator for a date that has a stored puzzle makes
\* no generation attempt and leaves the Puzzle Store and the historical archive
\* unchanged; with one run at a time, the puzzle stored for a date never changes
\* once it is written.
C21_PuzzleWrittenOnce ==
    [][/\ \A d \in DOMAIN daily_puzzles :
             d \in DOMAIN daily_puzzles' /\ daily_puzzles'[d] = daily_puzzles[d]
       /\ (IsNone(gen_date) /\ today \in DOMAIN daily_puzzles)
             => /\ \A run \in GenRuns : ~DailyGeneratorAttempt(run)
                /\ gen_attempts' \in {0, gen_attempts}
                /\ daily_puzzles' = daily_puzzles
                /\ historical_puzzles' = historical_puzzles]_vars

\* the generator was run again on the second date, whose puzzle an earlier run
\* had saved: it reported the puzzle and made no attempt
C21_Witness ==
    /\ today = 2
    /\ today \in DOMAIN daily_puzzles
    /\ gen_attempts = 0
    /\ response = GenResponse(200, "exists")
    /\ historical_puzzles # << >>

----------------------------------------------------------------------------
(* The saved puzzles *)

\* the words of the groups of a saved puzzle
GroupWords(puzzle) ==
    UNION {{puzzle.groups[g].words[k] : k \in 1..Len(puzzle.groups[g].words)} :
              g \in 1..Len(puzzle.groups)}

\* C22: every puzzle the daily generator saves has 4 groups of 4 words, 16
\* pairwise distinct words, the difficulties 1, 2, 3, 4 one group each, pairwise
\* distinct categories, and a words sequence that is a permutation of the 16
\* words of its groups.
C22_SavedPuzzleValid ==
    \A d \in DOMAIN daily_puzzles :
        LET puzzle == daily_puzzles[d]
            groups == puzzle.groups
        IN  /\ Len(groups) = NumGroups
            /\ \A g \in 1..Len(groups) : Len(groups[g].words) = GroupSize
            /\ Cardinality(GroupWords(puzzle)) = NumWords
            /\ \A i \in 1..NumGroups :
                  Cardinality({g \in 1..Len(groups) : groups[g].difficulty = i}) = 1
            /\ Cardinality({groups[g].category : g \in 1..Len(groups)}) = NumGroups
            /\ Len(puzzle.words) = NumWords
            /\ {puzzle.words[k] : k \in 1..Len(puzzle.words)} = GroupWords(puzzle)

\* the puzzle saved for the first date is the second candidate of a call whose
\* first candidate did not validate, its words in another order than the groups
C22_Witness ==
    /\ 1 \in DOMAIN daily_puzzles
    /\ daily_puzzles[1] = format_puzzle(GoodPuzzle2, "reversed")
    /\ daily_puzzles[1].words # group_words(GoodPuzzle2)

----------------------------------------------------------------------------
(* Failing lookups *)

\* C23: when a lookup of the existing session fails with a store error during
\* a save-progress request, the request does not treat the session as absent: it
\* creates no second session record for the player and date, it does not
\* replace the stored guess log by a log holding only the new guess, and it
\* accepts no save on a session that is already completed.
C23_LookupFailureNotAbsence ==
    [][/\ Cardinality(SessionIds(sessions', "p1", today)) <= 1
       /\ (LogOf(sessions) # << >> /\ response'.code = 200)
             => Len(LogOf(sessions')) > 1
       /\ has_user_completed_daily_puzzle(sessions, "p1", today)
             => sessions' = sessions /\ response'.code # 200]_vars

----------------------------------------------------------------------------
(* The player's totals *)

\* the sessions of player p in table S whose status is one of sts
SessionsIn(S, p, sts) ==
    {i \in 1..Len(S) : S[i].discord_id = p /\ S[i].game_status \in sts}

\* C24: after every request (requests one at a time, store calls succeeding),
\* each player's total_games is the number of the player's sessions that are
\* completed or failed and games_won the number that are completed, so
\* games_won <= total_games; and a save-progress request that leaves the
\* session in progress changes none of total_games, games_won, best_time.
C24_TotalsAreCounts ==
    [][\A p \in DOMAIN players' :
          /\ players'[p].total_games =
                Cardinality(SessionsIn(sessions', p, {"completed", "failed"}))
          /\ players'[p].games_won =
                Cardinality(SessionsIn(sessions', p, {"completed"}))
          /\ players'[p].games_won <= players'[p].total_games
          /\ (/\ RequestBy(p)
              /\ response'.code = 200
              /\ \A i \in SessionIds(sessions', p, today) :
                    sessions'[i].game_status = "in_progress")
                => players'[p] = StatsBefore(p)]_vars

----------------------------------------------------------------------------
(* Concurrent terminal requests *)

\* C25: even when save-progress requests for the same player and date run
\* concurrently, the session becomes terminal once: within the one date of the
\* run the player's total_games is incremented at most once and games_won at
\* most once.
C25_TerminalOnceUnderConcurrency ==
    \A p \in DOMAIN players :
        /\ players[p].total_games <= 1
        /\ players[p].games_won <= 1

----------------------------------------------------------------------------
(* The completion markers *)

\* the status the game-state route reports to player p for the current date
ReportedStatus(p) ==
    get_game_state(State, today, p,
                   BodyOf("g1", MaxAttempts, {}, None, "none")).response.game_status

\* C26: after every save-progress request the two completion markers of a
\* session agree: its game_status is completed if and only if its completed flag
\* is true; so the replay guard rejects exactly the sessions whose status is
\* completed and the game-state route reports the stored status.
C26_MarkersAgree ==
    /\ \A i \in 1..Len(sessions) :
          sessions[i].game_status = "completed" <=> sessions[i].completed
    /\ \A p \in Players : \A i \in TodaySessions(p) :
          /\ has_user_completed_daily_puzzle(sessions, p, today)
                <=> sessions[i].game_status = "completed"
          /\ ReportedStatus(p) = sessions[i].game_status

----------------------------------------------------------------------------
(* Properties of the archive keys *)

\* C27: the duplicate check has no false positive from its keys: a duplicate is
\* reported only if the archive holds a group with the words of a group of the
\* candidate, as a set and letter case apart, and two groups with different
\* sets of words never have the same key.
C27_NoFalsePositive ==
    /\ verdict = "true" =>
          \E g \in 1..Len(candidate) : \E key \in DOMAIN historical_puzzles :
             FoldSet(candidate[g].words) = FoldSet(historical_puzzles[key].words)
    /\ \A g \in 1..Len(candidate) : \A key \in DOMAIN historical_puzzles :
          hash_group(candidate[g].words) = key
             => FoldSet(candidate[g].words) = FoldSet(historical_puzzles[key].words)

----------------------------------------------------------------------------
(* Properties of a run of the daily generator whose attempts fail *)

\* C28: a run of the daily generator one of whose attempts returned a validated
\* puzzle ends with a puzzle saved for its date and status 200, also when a
\* later attempt raises an error; a run fails only when none of its attempts
\* returned a puzzle.
C28_ReturnedPuzzleIsSaved ==
    [][\A run \in GenRuns :
          (DailyGeneratorAttempt(run) /\ IsNone(gen_date')) =>
              LET returned == candidate # << >> \/ ~IsNone(generate_puzzle(run))
              IN  response'.code = (IF returned THEN 200 ELSE 500)
                  /\ (returned => RunDate \in DOMAIN daily_puzzles')]_vars

----------------------------------------------------------------------------
(* daily_summary_sender *)

\* the most active channels a run of the summary sender is given
MaxChannels == 2

\* the day of the launch date, the date whose puzzle has number 1
LaunchDay == 1

\* calculate_puzzle_number: max(1, diff_days + 1)
calculate_puzzle_number(d) ==
    IF d - LaunchDay + 1 > 1 THEN d - LaunchDay + 1 ELSE 1

\* what the calls of send_discord_summary for one channel meet: the bot token
\* of the environment, the image generator, the post of the message, the
\* creation of the activity invite and the edit that adds the button
SummaryEnv(token, image, post, invite, edit) ==
    [token |-> token, image |-> image, post |-> post, invite |-> invite,
     edit |-> edit]

SummaryEnvs ==
    {SummaryEnv(TRUE, "ok", "ok", "ok", "ok"),
     SummaryEnv(FALSE, "ok", "ok", "ok", "ok"),
     SummaryEnv(TRUE, "fail", "ok", "ok", "ok"),
     SummaryEnv(TRUE, "ok", "fail", "ok", "ok"),
     SummaryEnv(TRUE, "ok", "ok", "fail", "ok"),
     SummaryEnv(TRUE, "ok", "ok", "ok", "fail")}

\* send_discord_message_with_image of the summary sender: the id of the message
\* posted, None when the post is refused or raises
summary_send_discord_message_with_image(e) ==
    IF e.post = "ok" THEN Some("id") ELSE None

\* send_discord_summary: False without a bot token; the message is posted with
\* the image, or as text when there is no image; with a message id and an
\* invite the result is that of the edit, else whether there is a message id
send_discord_summary(e) ==
    IF ~e.token THEN [success |-> FALSE, posts |-> 0]
    ELSE LET activity_invite == IF e.invite = "ok" THEN Some("invite") ELSE None
             message_id ==
                 IF e.image = "ok" THEN summary_send_discord_message_with_image(e)
                 ELSE IF e.post = "ok" THEN Some("id") ELSE None
         IN  [success |->
                  IF ~IsNone(message_id) /\ ~IsNone(activity_invite)
                  THEN e.edit = "ok"
                  ELSE ~IsNone(message_id),
              posts |-> IF IsNone(message_id) THEN 0 ELSE 1]

\* the loop of lambda_handler over the active channels, from the counters and
\* the local puzzle_number it has reached: a channel without a game of the
\* date is passed over; for the others puzzle_number is assigned and the
\* summary sent, and the channel counted as sent or as failed
RECURSIVE summary_loop(_, _, _)
summary_loop(active_channels, yesterday, acc) ==
    IF active_channels = << >> THEN acc
    ELSE LET channel == Head(active_channels)
             channel_games == get_all_daily_games(channel.items, yesterday)
             sent == send_discord_summary(channel.env)
         IN  IF Len(channel_games) = 0
             THEN summary_loop(Tail(active_channels), yesterday, acc)
             ELSE summary_loop(Tail(active_channels), yesterday,
                     [sent_count |-> acc.sent_count + (IF sent.success THEN 1 ELSE 0),
                      failed_count |-> acc.failed_count + (IF sent.success THEN 0 ELSE 1),
                      puzzle_number |-> Some(calculate_puzzle_number(yesterday)),
                      posts |-> acc.posts + sent.posts])

\* the response of the summary sender
SummaryResponse(code, message, sent, failed, number) ==
    [statusCode |-> code, message |-> message, channels_sent |-> sent,
     channels_failed |-> failed, puzzle_number |-> number]

\* get_active_discord_channels: the items of the scan, none when it fails
get_active_discord_channels(C, scan) == IF scan = "ok" THEN C ELSE << >>

\* lambda_handler of the summary sender on date d: without an active channel it
\* answers 200 with a message only; else it runs the loop and builds the body
\* from the counters and from puzzle_number, a local that is bound only once a
\* channel with games has been met: reading it unbound raises, and the handler
\* answers 500
daily_summary_sender(C, scan, d) ==
    LET yesterday == d - 1
        active_channels == get_active_discord_channels(C, scan)
        out == summary_loop(active_channels, yesterday,
                  [sent_count |-> 0, failed_count |-> 0, puzzle_number |-> None,
                   posts |-> 0])
    IN  IF active_channels = << >>
        THEN [response |-> SummaryResponse(200, "No active channels found",
                                           None, None, None),
              posts |-> 0]
        ELSE IF IsNone(out.puzzle_number)
        THEN [response |-> SummaryResponse(500, "Failed to send daily summaries",
                                           None, None, None),
              posts |-> out.posts]
        ELSE [response |-> SummaryResponse(200, "Daily summaries sent",
                                Some(out.sent_count), Some(out.failed_count),
                                out.puzzle_number),
              posts |-> out.posts]

\* the sessions of one channel the scan of game_sessions returns: none, a game
\* of yesterday in progress, a game of yesterday completed, a game of today
SummaryItemVals ==
    {<< >>,
     <<NewSession("p1", 1, <<"g1">>, MaxAttempts - 1, {1})>>,
     <<[NewSession("p1", 1, <<"g1">>, 2, 1..NumGroups) EXCEPT
           !.game_status = "completed", !.completed = TRUE,
           !.completion_time = Some(1)]>>,
     <<NewSession("p1", 2, <<"g1">>, MaxAttempts, {})>>}

\* the active channels of a run, with what the calls for each of them meet
SummaryChannels(n) ==
    [1..n -> [items : SummaryItemVals, env : SummaryEnvs]]

\* The summary sender, run once on the second day.
InitSummary ==
    /\ InitTables
    /\ candidate \in
          {[active_channels |-> C, scan |-> scan] :
              C \in UNION {SummaryChannels(n) : n \in 0..MaxChannels},
              scan \in {"ok", "fail"}}
    /\ verdict = SummaryResponse(0, "none", None, None, None)

DailySummarySender ==
    LET out == daily_summary_sender(candidate.active_channels, candidate.scan,
                                    today)
    IN  /\ verdict.statusCode = 0
        /\ today > 1
        /\ verdict' = out.response
        /\ posted' = posted + out.posts
        /\ UNCHANGED <<today, players, sessions, channels, chat, response,
                       daily_puzzles, historical_puzzles, gen_date,
                       gen_attempts, candidate, inflight>>

NextSummary ==
    \/ verdict.statusCode = 0 /\ today = 1 /\ NextDay
    \/ DailySummarySender

SpecSummary == InitSummary /\ [][NextSummary]_vars

----------------------------------------------------------------------------
(* Properties of the summary sender *)

\* the active channels of the run that have a game of yesterday
ChannelsWithGames ==
    {i \in 1..Len(candidate.active_channels) :
        Len(get_all_daily_games(candidate.active_channels[i].items, today - 1)) > 0}

\* C29: once the list of active channels has been read and is not empty, the
\* summary sender answers 200 with its counters: each channel with a game of
\* yesterday is counted once, in channels_sent or in channels_failed, whatever
\* happened on the channels before it, and without any such channel both
\* counters are 0.
C29_AlwaysReportsCounters ==
    (verdict.statusCode # 0
        /\ get_active_discord_channels(candidate.active_channels, candidate.scan)
              # << >>)
        => /\ verdict.statusCode = 200
           /\ ~IsNone(verdict.channels_sent)
           /\ ~IsNone(verdict.channels_failed)
           /\ Val(verdict.channels_sent) + Val(verdict.channels_failed)
                 = Cardinality(ChannelsWithGames)

----------------------------------------------------------------------------
(* The chat message of a session *)

\* C30: after any sequence of save-progress requests with messaging, at most one
\* chat message posted for the session is live in the channel, and the message
\* id stored on the session is the id of the message posted last, which has not
\* been deleted.
C30_OneLiveMessage ==
    \A i \in 1..Len(sessions) :
        /\ Cardinality(chat) <= 1
        /\ posted > 0 =>
              /\ sessions[i].discord_message_id = Some(posted)
              /\ posted \in chat

============================================================================
